---- MODULE Spec2Model ----
(***************************************************************************)
(* rpad: the document session behind the editor window (src/main.rs).      *)
(*                                                                         *)
(* The state is the DocumentState attached to the window, the text of the  *)
(* GtkSourceView buffer, the files the session reads and writes, and the   *)
(* position of the handler that is running.  GTK runs every handler on one *)
(* thread, to completion; a handler that replaces the buffer content is    *)
(* split at the set_text call so that the state the "changed" signal       *)
(* leaves behind is visible.                                               *)
(***************************************************************************)
EXTENDS Naturals, Sequences, FiniteSets

(***************************************************************************)
(* Bounds and input sets                                                   *)
(***************************************************************************)
\* cap on the depth of the undo stack a user edit may build (the code has none)
MaxHist == 2
\* cap on the number of clock advances
MaxTicks == 1

\* Option<T>: None is the empty sequence, Some(x) the one-element sequence
None == <<>>
Some(x) == <<x>>
IsSome(o) == o # <<>>
Unwrap(o) == o[1]

\* document texts: sequences of characters
Empty == <<>>
Texts == {Empty, <<"a">>, <<"a", "b">>}
Paths == {"p1", "p2"}
Modes == {"Plain", "Markup"}
\* secrets the user may type; the helper accepts the ones in GoodSecrets
Secrets == {"s1", "bad"}
GoodSecrets == {"s1"}
\* Duration::from_secs(300)
SudoTtl == 300

VARIABLES
    buffer,           \* full text of the GtkTextBuffer
    path,             \* DocumentState.path : Option<PathBuf>
    mode,             \* DocumentState.mode
    undo_stack,       \* DocumentState.undo_stack : Vec<String>
    redo_stack,       \* DocumentState.redo_stack : Vec<String>
    last_text,        \* DocumentState.last_text
    is_programmatic,  \* DocumentState.is_programmatic
    dirty,            \* DocumentState.dirty
    sudo_password,    \* DocumentState.sudo_password : Option<String>
    sudo_expiry,      \* DocumentState.sudo_expiry : Option<Instant>
    now,              \* Instant::now()
    ticks,            \* number of clock advances so far
    files,            \* file system: path -> Option<content>
    temp_file,        \* the staging file rpad_sudo_save.tmp : Option<content>
    pc,               \* handler in progress: "idle" or the handler split at set_text
    loc,              \* locals of the handler in progress
    panicked,         \* a RefCell borrow panicked; the process is gone
    sudo_shown,       \* SUDO label visible and sudo_mode action state
    find_text,        \* DocumentState.find_text
    match_case,       \* DocumentState.match_case
    marks,            \* offsets of the buffer's insert (cursor) and selection_bound marks
    saved,            \* history variable: text of the last successful save or load
    ev,               \* history variable: the last operation and its result
    sym,              \* history variable: the edit/undo/redo run in progress
    procs             \* two editor processes, each at a step of an elevated save

doc_vars == <<path, mode, undo_stack, redo_stack, last_text, is_programmatic, dirty,
              sudo_password, sudo_expiry>>
env_vars == <<now, ticks, files, temp_file>>
view_vars == <<find_text, match_case, marks>>
vars == <<buffer, doc_vars, env_vars, view_vars, pc, loc, panicked, sudo_shown, saved, ev,
          sym, procs>>

NoLoc == [text |-> Empty, path |-> None]
\* the editor processes that share the temp directory (the second one is spawned by
\* New Window), and a process that is not saving
Procs == {1, 2}
NoSave == [pc |-> "idle", text |-> Empty, res |-> "none"]
\* no run of edits is being followed
NoSym == [phase |-> "off", t0 |-> Empty, tn |-> Empty, n |-> 0, k |-> 0]
\* what the last handler did: the operation, its result and its file argument; for a
\* save the write path taken ("direct", "sudo" or "none"); for a handler that may ask
\* for the secret how the prompt went ("none" when there was no prompt) and the answer
\* given; the text of the message dialog the handler showed ("none" when it showed none)
EvFull(op, res, arg, via, prompt, answer, shown) ==
    [op |-> op, res |-> res, arg |-> arg, via |-> via, prompt |-> prompt,
     answer |-> answer, shown |-> shown]
Ev(op, res, arg) == EvFull(op, res, arg, "none", "none", None, "none")

(***************************************************************************)
(* Text helpers                                                            *)
(***************************************************************************)
\* t with the characters of ins inserted after position i
InsertAt(t, i, ins) == SubSeq(t, 1, i) \o ins \o SubSeq(t, i + 1, Len(t))
\* t with positions i+1..j removed
DeleteRange(t, i, j) == SubSeq(t, 1, i) \o SubSeq(t, j + 1, Len(t))

\* texts one insert-text away from t
Inserts(t) == {u \in Texts : Len(u) > Len(t) /\ \E i \in 0..Len(t) :
                 \E k \in 1..(Len(u) - Len(t)) :
                    /\ Len(u) = Len(t) + k
                    /\ u = InsertAt(t, i, SubSeq(u, i + 1, i + k))}
\* texts one delete-range away from t
Deletes(t) == {u \in Texts : \E i \in 0..Len(t) : \E j \in (i + 1)..Len(t) :
                 u = DeleteRange(t, i, j)}

\* where an edit from old to new leaves the cursor: after the inserted text, or at the
\* place of the deleted range
EditCursors(old, new) ==
    {i + (Len(new) - Len(old)) : i \in {i \in 0..Len(old) :
         Len(new) > Len(old)
         /\ new = InsertAt(old, i, SubSeq(new, i + 1, i + (Len(new) - Len(old))))}}
    \cup {i \in 0..Len(old) : \E j \in (i + 1)..Len(old) : new = DeleteRange(old, i, j)}
\* both marks at offset n: the cursor is there and nothing is selected
CursorAt(n) == marks' = [insert |-> n, bound |-> n]

Top(s) == s[Len(s)]
Pop(s) == SubSeq(s, 1, Len(s) - 1)

(***************************************************************************)
(* The "changed" signal handler                                            *)
(***************************************************************************)
\* the part of DocumentState the handler reads and writes
Doc == [undo_stack |-> undo_stack, redo_stack |-> redo_stack, last_text |-> last_text,
        is_programmatic |-> is_programmatic, dirty |-> dirty]

\* the handler pushing the new text instead of the text before the edit
Changed_PushesNew(d, text) ==
    IF d.is_programmatic THEN d
    ELSE IF text # d.last_text
         THEN [d EXCEPT !.undo_stack = Append(d.undo_stack, text),
                        !.redo_stack = <<>>,
                        !.last_text = text,
                        !.dirty = TRUE]
         ELSE d

\* the handler without redo_stack.clear()
Changed_KeepsRedo(d, text) ==
    IF d.is_programmatic THEN d
    ELSE IF text # d.last_text
         THEN [d EXCEPT !.undo_stack = Append(d.undo_stack, d.last_text),
                        !.last_text = text,
                        !.dirty = TRUE]
         ELSE d

\* the handler without the text != *last_text test
Changed_NoCompare(d, text) ==
    IF d.is_programmatic THEN d
    ELSE [d EXCEPT !.undo_stack = Append(d.undo_stack, d.last_text),
                   !.redo_stack = <<>>,
                   !.last_text = text,
                   !.dirty = TRUE]

\* the handler without *last_text = text
Changed_KeepsLastText(d, text) ==
    IF d.is_programmatic THEN d
    ELSE IF text # d.last_text
         THEN [d EXCEPT !.undo_stack = Append(d.undo_stack, d.last_text),
                        !.redo_stack = <<>>,
                        !.dirty = TRUE]
         ELSE d

\* buffer.connect_changed: d is the DocumentState, text the buffer text at the signal
Changed(d, text) ==
    IF d.is_programmatic THEN d
    ELSE IF text # d.last_text
         THEN [d EXCEPT !.undo_stack = Append(d.undo_stack, d.last_text),
                        !.redo_stack = <<>>,
                        !.last_text = text,
                        !.dirty = TRUE]
         ELSE d

\* buffer.set_text(new) on a buffer holding old: GTK deletes the old content (one
\* "changed" if there was any), then inserts the new one (one "changed" if non-empty)
SetText(d, old, new) ==
    LET d1 == IF old # Empty THEN Changed(d, Empty) ELSE d
    IN  IF new # Empty THEN Changed(d1, new) ELSE d1

\* writes a DocumentState record back to the fields the handler owns
SetDoc(d) ==
    /\ undo_stack' = d.undo_stack
    /\ redo_stack' = d.redo_stack
    /\ last_text' = d.last_text
    /\ is_programmatic' = d.is_programmatic
    /\ dirty' = d.dirty

Idle == pc = "idle" /\ ~panicked

(***************************************************************************)
(* Construction: DocumentState::new and build_ui                           *)
(***************************************************************************)
InitFiles == [p \in Paths |-> IF p = "p1" THEN Some(<<"a">>) ELSE None]
\* a file with two spellings of one letter, to search in
SearchFiles == [p \in Paths |-> IF p = "p1" THEN Some(<<"a", "b", "A">>) ELSE None]

Init ==
    /\ buffer = Empty
    /\ path \in {None} \cup {Some(p) : p \in Paths}
    /\ mode \in Modes
    /\ undo_stack = <<>>
    /\ redo_stack = <<>>
    /\ last_text = Empty
    /\ is_programmatic = FALSE
    /\ dirty = FALSE
    /\ sudo_password = None
    /\ sudo_expiry = None
    /\ now = 0
    /\ ticks = 0
    /\ files \in {InitFiles, SearchFiles}
    /\ temp_file = None
    /\ pc = "start"
    /\ loc = NoLoc
    /\ panicked = FALSE
    /\ sudo_shown = FALSE
    /\ find_text = Empty
    /\ match_case = FALSE
    /\ marks = [insert |-> 0, bound |-> 0]
    /\ saved = Empty
    /\ ev = Ev("init", "ok", None)
    /\ sym = NoSym
    /\ procs = [i \in Procs |-> NoSave]

\* build_ui with no FILE argument: nothing to load
StartNoFile ==
    /\ pc = "start" /\ path = None
    /\ pc' = "idle"
    /\ UNCHANGED <<buffer, doc_vars, env_vars, loc, panicked, view_vars, sudo_shown, saved, ev>>

(***************************************************************************)
(* User edits: the widget changes the buffer and emits "changed"           *)
(***************************************************************************)
UserEdit(t) ==
    /\ Idle
    /\ Len(undo_stack) < MaxHist
    /\ t \in Inserts(buffer) \cup Deletes(buffer)
    /\ buffer' = t
    /\ \E c \in EditCursors(buffer, t) : CursorAt(c)
    /\ SetDoc(Changed(Doc, t))
    /\ ev' = Ev("edit", "ok", None)
    /\ UNCHANGED <<path, mode, sudo_password, sudo_expiry, env_vars, pc, loc, panicked, find_text, match_case,
                   sudo_shown, saved>>

\* a "changed" emission that leaves the text as it was
ChangedSameText ==
    /\ Idle
    /\ SetDoc(Changed(Doc, buffer))
    /\ ev' = Ev("changed", "ok", None)
    /\ UNCHANGED <<buffer, path, mode, sudo_password, sudo_expiry, env_vars, pc, loc,
                   panicked, view_vars, sudo_shown, saved>>

(***************************************************************************)
(* Undo / Redo                                                             *)
(***************************************************************************)
\* app.undo that replaces the buffer without setting is_programmatic
Undo_Unsuppressed ==
    /\ Idle
    /\ IF undo_stack # <<>>
       THEN LET prev_text == Top(undo_stack)
                current_text == last_text
                d0 == [Doc EXCEPT !.undo_stack = Pop(undo_stack),
                                  !.redo_stack = Append(redo_stack, current_text)]
            IN /\ SetDoc(SetText(d0, buffer, prev_text))
               /\ buffer' = prev_text
               /\ CursorAt(Len(prev_text))
               /\ loc' = [text |-> prev_text, path |-> None]
               /\ pc' = "undo"
               /\ UNCHANGED ev
       ELSE /\ ev' = Ev("undo", "empty", None)
            /\ UNCHANGED <<buffer, undo_stack, redo_stack, last_text, is_programmatic,
                           dirty, pc, loc, marks>>
    /\ UNCHANGED <<path, mode, sudo_password, sudo_expiry, env_vars, panicked, find_text, match_case, sudo_shown,
                   saved>>

\* app.undo that pushes the current text onto the redo stack before testing the pop
Undo_PushFirst ==
    /\ Idle
    /\ IF undo_stack # <<>>
       THEN LET prev_text == Top(undo_stack)
                current_text == last_text
                d0 == [Doc EXCEPT !.undo_stack = Pop(undo_stack),
                                  !.redo_stack = Append(redo_stack, current_text),
                                  !.is_programmatic = TRUE]
            IN /\ SetDoc(SetText(d0, buffer, prev_text))
               /\ buffer' = prev_text
               /\ CursorAt(Len(prev_text))
               /\ loc' = [text |-> prev_text, path |-> None]
               /\ pc' = "undo"
               /\ UNCHANGED ev
       ELSE /\ ev' = Ev("undo", "empty", None)
            /\ redo_stack' = Append(redo_stack, last_text)
            /\ UNCHANGED <<buffer, undo_stack, last_text, is_programmatic, dirty, pc, loc, marks>>
    /\ UNCHANGED <<path, mode, sudo_password, sudo_expiry, env_vars, panicked, find_text, match_case, sudo_shown,
                   saved>>

\* app.undo up to and including buffer.set_text(&prev_text); with an empty stack
\* undo_stack.pop() is None and the handler returns
Undo ==
    /\ Idle
    /\ IF undo_stack # <<>>
       THEN LET prev_text == Top(undo_stack)
                current_text == last_text
                d0 == [Doc EXCEPT !.undo_stack = Pop(undo_stack),
                                  !.redo_stack = Append(redo_stack, current_text),
                                  !.is_programmatic = TRUE]
            IN /\ SetDoc(SetText(d0, buffer, prev_text))
               /\ buffer' = prev_text
               /\ CursorAt(Len(prev_text))
               /\ loc' = [text |-> prev_text, path |-> None]
               /\ pc' = "undo"
               /\ UNCHANGED ev
       ELSE /\ ev' = Ev("undo", "empty", None)
            /\ UNCHANGED <<buffer, undo_stack, redo_stack, last_text, is_programmatic,
                           dirty, pc, loc, marks>>
    /\ UNCHANGED <<path, mode, sudo_password, sudo_expiry, env_vars, panicked, find_text, match_case, sudo_shown,
                   saved>>

\* app.undo that returns without clearing is_programmatic
UndoEnd_KeepsFlag ==
    /\ pc = "undo"
    /\ last_text' = loc.text
    /\ pc' = "idle"
    /\ loc' = NoLoc
    /\ ev' = Ev("undo", "ok", None)
    /\ UNCHANGED <<buffer, path, mode, undo_stack, redo_stack, dirty, sudo_password,
                   sudo_expiry, env_vars, panicked, view_vars, sudo_shown, saved, is_programmatic>>

\* app.undo after set_text: last_text = prev_text; is_programmatic = false
UndoEnd ==
    /\ pc = "undo"
    /\ last_text' = loc.text
    /\ is_programmatic' = FALSE
    /\ pc' = "idle"
    /\ loc' = NoLoc
    /\ ev' = Ev("undo", "ok", None)
    /\ UNCHANGED <<buffer, path, mode, undo_stack, redo_stack, dirty, sudo_password,
                   sudo_expiry, env_vars, panicked, view_vars, sudo_shown, saved>>

\* app.redo pushing the text it restores instead of the text it replaces
Redo_PushesNext ==
    /\ Idle
    /\ IF redo_stack # <<>>
       THEN LET next_text == Top(redo_stack)
                d0 == [Doc EXCEPT !.redo_stack = Pop(redo_stack),
                                  !.undo_stack = Append(undo_stack, next_text),
                                  !.is_programmatic = TRUE]
            IN /\ SetDoc(SetText(d0, buffer, next_text))
               /\ buffer' = next_text
               /\ CursorAt(Len(next_text))
               /\ loc' = [text |-> next_text, path |-> None]
               /\ pc' = "redo"
               /\ UNCHANGED ev
       ELSE /\ ev' = Ev("redo", "empty", None)
            /\ UNCHANGED <<buffer, undo_stack, redo_stack, last_text, is_programmatic,
                           dirty, pc, loc, marks>>
    /\ UNCHANGED <<path, mode, sudo_password, sudo_expiry, env_vars, panicked, find_text,
                   match_case, sudo_shown, saved>>

\* app.redo up to and including buffer.set_text(&next_text)
Redo ==
    /\ Idle
    /\ IF redo_stack # <<>>
       THEN LET next_text == Top(redo_stack)
                current_text == last_text
                d0 == [Doc EXCEPT !.redo_stack = Pop(redo_stack),
                                  !.undo_stack = Append(undo_stack, current_text),
                                  !.is_programmatic = TRUE]
            IN /\ SetDoc(SetText(d0, buffer, next_text))
               /\ buffer' = next_text
               /\ CursorAt(Len(next_text))
               /\ loc' = [text |-> next_text, path |-> None]
               /\ pc' = "redo"
               /\ UNCHANGED ev
       ELSE /\ ev' = Ev("redo", "empty", None)
            /\ UNCHANGED <<buffer, undo_stack, redo_stack, last_text, is_programmatic,
                           dirty, pc, loc, marks>>
    /\ UNCHANGED <<path, mode, sudo_password, sudo_expiry, env_vars, panicked, find_text, match_case, sudo_shown,
                   saved>>

\* app.redo after set_text
RedoEnd ==
    /\ pc = "redo"
    /\ last_text' = loc.text
    /\ is_programmatic' = FALSE
    /\ pc' = "idle"
    /\ loc' = NoLoc
    /\ ev' = Ev("redo", "ok", None)
    /\ UNCHANGED <<buffer, path, mode, undo_stack, redo_stack, dirty, sudo_password,
                   sudo_expiry, env_vars, panicked, view_vars, sudo_shown, saved>>

(***************************************************************************)
(* New and Open                                                            *)
(***************************************************************************)
\* set_sudo_state(window, active): SUDO label and sudo_mode action state
set_sudo_state(active) == sudo_shown' = active

\* app.new up to and including text_buffer.set_text(""): is_programmatic is not set
NewBegin ==
    /\ Idle
    /\ SetDoc(SetText(Doc, buffer, Empty))
    /\ buffer' = Empty
    /\ CursorAt(0)
    /\ pc' = "new"
    /\ UNCHANGED <<path, mode, sudo_password, sudo_expiry, env_vars, loc, panicked, find_text, match_case,
                   sudo_shown, saved, ev>>

\* app.new that leaves the history stacks as the set_text left them
NewEnd_KeepsStacks ==
    /\ pc = "new"
    /\ path' = None
    /\ dirty' = FALSE
    /\ last_text' = Empty
    /\ sudo_password' = None
    /\ sudo_expiry' = None
    /\ set_sudo_state(FALSE)
    /\ is_programmatic' = FALSE
    /\ pc' = "idle"
    /\ saved' = Empty
    /\ ev' = Ev("new", "ok", None)
    /\ UNCHANGED <<buffer, mode, env_vars, loc, panicked, view_vars, undo_stack, redo_stack>>

\* app.new without set_sudo_state(false)
NewEnd_KeepsIndicator ==
    /\ pc = "new"
    /\ path' = None
    /\ dirty' = FALSE
    /\ last_text' = Empty
    /\ sudo_password' = None
    /\ sudo_expiry' = None
    /\ undo_stack' = <<>>
    /\ redo_stack' = <<>>
    /\ is_programmatic' = FALSE
    /\ pc' = "idle"
    /\ saved' = Empty
    /\ ev' = Ev("new", "ok", None)
    /\ UNCHANGED <<buffer, mode, env_vars, loc, panicked, view_vars, sudo_shown>>

\* app.new after set_text
NewEnd ==
    /\ pc = "new"
    /\ path' = None
    /\ dirty' = FALSE
    /\ last_text' = Empty
    /\ sudo_password' = None
    /\ sudo_expiry' = None
    /\ set_sudo_state(FALSE)
    /\ undo_stack' = <<>>
    /\ redo_stack' = <<>>
    /\ is_programmatic' = FALSE
    /\ pc' = "idle"
    /\ saved' = Empty
    /\ ev' = Ev("new", "ok", None)
    /\ UNCHANGED <<buffer, mode, env_vars, loc, panicked, view_vars>>

\* which file a load may name: any file from the Open dialog, the FILE argument at start
MayLoad(p) == \/ Idle
              \/ pc = "start" /\ ~panicked /\ path = Some(p)

\* a failed load that marks the document clean
LoadFail_ClearsDirty(p) ==
    /\ MayLoad(p)
    /\ pc' = "idle"
    /\ dirty' = FALSE
    /\ ev' = Ev("load", "err", Some(p))
    /\ UNCHANGED <<buffer, path, mode, undo_stack, redo_stack, last_text, is_programmatic,
                   sudo_password, sudo_expiry, env_vars, loc, panicked, view_vars,
                   sudo_shown, saved>>

\* load_file_into_window: fs::read_to_string fails (no such file, unreadable)
LoadFail(p) ==
    /\ MayLoad(p)
    /\ pc' = "idle"
    /\ ev' = Ev("load", "err", Some(p))
    /\ UNCHANGED <<buffer, doc_vars, env_vars, loc, panicked, view_vars, sudo_shown, saved>>

\* load_file_into_window up to and including buffer.set_text(&contents)
LoadBegin(p) ==
    /\ MayLoad(p)
    /\ IsSome(files[p])
    /\ LET contents == Unwrap(files[p])
           d0 == [Doc EXCEPT !.is_programmatic = TRUE]
       IN /\ SetDoc(SetText(d0, buffer, contents))
          /\ buffer' = contents
          /\ CursorAt(Len(contents))
          /\ loc' = [text |-> contents, path |-> Some(p)]
    /\ pc' = "load"
    /\ UNCHANGED <<path, mode, sudo_password, sudo_expiry, env_vars, panicked, find_text, match_case, sudo_shown,
                   saved, ev>>

\* load_file_into_window without the reset of sudo mode
LoadEnd_KeepsCredential ==
    /\ pc = "load"
    /\ undo_stack' = <<>>
    /\ redo_stack' = <<>>
    /\ last_text' = loc.text
    /\ path' = loc.path
    /\ dirty' = FALSE
    /\ is_programmatic' = FALSE
    /\ pc' = "idle"
    /\ loc' = NoLoc
    /\ saved' = loc.text
    /\ ev' = Ev("load", "ok", loc.path)
    /\ UNCHANGED <<buffer, mode, env_vars, panicked, view_vars, sudo_password, sudo_expiry,
                   sudo_shown>>

\* load_file_into_window after set_text
LoadEnd ==
    /\ pc = "load"
    /\ undo_stack' = <<>>
    /\ redo_stack' = <<>>
    /\ last_text' = loc.text
    /\ path' = loc.path
    /\ dirty' = FALSE
    /\ sudo_password' = None
    /\ sudo_expiry' = None
    /\ set_sudo_state(FALSE)
    /\ is_programmatic' = FALSE
    /\ pc' = "idle"
    /\ loc' = NoLoc
    /\ saved' = loc.text
    /\ ev' = Ev("load", "ok", loc.path)
    /\ UNCHANGED <<buffer, mode, env_vars, panicked, view_vars>>

(***************************************************************************)
(* Saving                                                                  *)
(***************************************************************************)
\* proper prefixes of a text: what a write that fails midway may leave behind
ProperPrefixes(t) == {SubSeq(t, 1, n) : n \in 0..(Len(t) - 1)}

\* validate_sudo_password: sudo -S -v -k; a helper that cannot run counts as a rejection
validate_sudo_password(password, helper_runs) == helper_runs /\ password \in GoodSecrets

\* prompt_for_password: None when cancelled or left empty
PromptAnswers == {None} \cup {Some(s) : s \in Secrets}

\* fs::write(path, text): written, refused (file untouched), or failed midway
FsWrite(fs, p, text) ==
    {[ok |-> TRUE, files |-> [fs EXCEPT ![p] = Some(text)]],
     [ok |-> FALSE, files |-> fs]}
    \cup {[ok |-> FALSE, files |-> [fs EXCEPT ![p] = Some(part)]] : part \in ProperPrefixes(text)}

\* perform_sudo_save that returns Ok(()) whatever the exit status of sudo
perform_sudo_save_IgnoresStatus(fs, tmp, p, content) ==
    LET staged == Some(content)
        Partial == {Some(part) : part \in ProperPrefixes(content)}
    IN  {[ok |-> FALSE, res |-> "temp_write_failed", files |-> fs, temp |-> t] :
            t \in {tmp} \cup Partial}
        \cup {[ok |-> FALSE, res |-> "spawn_failed", files |-> fs, temp |-> staged]}
        \cup {[ok |-> FALSE, res |-> "wait_failed", files |-> [fs EXCEPT ![p] = f],
                temp |-> staged] : f \in {fs[p], staged} \cup Partial}
        \cup {[ok |-> TRUE, res |-> "ok", files |-> [fs EXCEPT ![p] = f], temp |-> None] :
                f \in {fs[p], staged} \cup Partial}

\* perform_sudo_save: stage the content in the temp file, then sudo -S cp temp path
perform_sudo_save(fs, tmp, p, content) ==
    LET staged == Some(content)
        Partial == {Some(part) : part \in ProperPrefixes(content)}
    IN  \* fs::write(&temp_file, content) failed: nothing written, or failed midway
        {[ok |-> FALSE, res |-> "temp_write_failed", files |-> fs, temp |-> t] :
            t \in {tmp} \cup Partial}
        \* Command::spawn failed: the temp file stays
        \cup {[ok |-> FALSE, res |-> "spawn_failed", files |-> fs, temp |-> staged]}
        \* child.wait() failed: the temp file stays, cp may have run or not
        \cup {[ok |-> FALSE, res |-> "wait_failed", files |-> [fs EXCEPT ![p] = f],
                temp |-> staged] : f \in {fs[p], staged} \cup Partial}
        \* sudo exited non-zero (secret rejected, or cp failed, perhaps midway): temp
        \* file removed
        \cup {[ok |-> FALSE, res |-> "exit_nonzero", files |-> [fs EXCEPT ![p] = f],
                temp |-> None] : f \in {fs[p]} \cup Partial}
        \* sudo cp succeeded: the destination is a copy of the temp file
        \cup {[ok |-> TRUE, res |-> "ok", files |-> [fs EXCEPT ![p] = staged],
                temp |-> None]}

\* save_buffer_to_path, lines 583-603: the write succeeded
SaveOk(p, text, op, via) ==
    /\ dirty' = FALSE
    /\ last_text' = text
    /\ saved' = text
    /\ ev' = EvFull(op, "ok", Some(p), via, "none", None, "none")

\* save_buffer_to_path returning Err(..) after clearing the dirty flag
SaveErr_ClearsDirty(p, op, res, via, prompt, answer) ==
    /\ ev' = EvFull(op, res, Some(p), via, prompt, answer, "none")
    /\ dirty' = FALSE
    /\ UNCHANGED <<last_text, saved>>

\* save_buffer_to_path returned Err(..): the callers print it with eprintln!
SaveErr(p, op, res, via, prompt, answer) ==
    /\ ev' = EvFull(op, res, Some(p), via, prompt, answer, "none")
    /\ UNCHANGED <<dirty, last_text, saved>>

\* the expiry test treating the instant of expiry as already expired
Expired_AtExpiry(expiry, t) == IF IsSome(expiry) THEN t >= Unwrap(expiry) ELSE TRUE

\* the expiry test of lines 542-546: a credential without an expiry counts as expired
Expired(expiry, t) == IF IsSome(expiry) THEN t > Unwrap(expiry) ELSE TRUE

\* the re-prompt forgetting the stored credential when the new secret is refused
Reauth_DropsCredential(p, op) ==
    \E answer \in PromptAnswers, helper_runs \in BOOLEAN :
       /\ UNCHANGED <<files, temp_file>>
       /\ IF answer = None
          THEN /\ SaveErr(p, op, "auth_cancelled", "none", "cancelled", None)
               /\ UNCHANGED <<panicked, sudo_password, sudo_expiry>>
          ELSE IF validate_sudo_password(Unwrap(answer), helper_runs)
               THEN /\ panicked' = TRUE
                    /\ ev' = EvFull(op, "panic", Some(p), "none", "accepted", answer, "none")
                    /\ UNCHANGED <<dirty, last_text, saved, sudo_password, sudo_expiry>>
               ELSE /\ SaveErr(p, op, "auth_failed", "none", "rejected", answer)
                    /\ sudo_password' = None
                    /\ sudo_expiry' = None
                    /\ UNCHANGED panicked

\* save_buffer_to_path, lines 548-563: the stored credential has expired, the user is
\* asked again.  Line 552 takes sudo_password.borrow_mut() while the Ref of the if-let
\* scrutinee of line 540 is alive: an accepted secret ends in a BorrowMutError panic,
\* before anything is stored or written.
Reauth(p, op) ==
    \E answer \in PromptAnswers, helper_runs \in BOOLEAN :
       /\ UNCHANGED <<files, temp_file, sudo_password, sudo_expiry>>
       /\ IF answer = None
          THEN /\ SaveErr(p, op, "auth_cancelled", "none", "cancelled", None)
               /\ UNCHANGED panicked
          ELSE IF validate_sudo_password(Unwrap(answer), helper_runs)
               THEN /\ panicked' = TRUE
                    /\ ev' = EvFull(op, "panic", Some(p), "none", "accepted", answer, "none")
                    /\ UNCHANGED <<dirty, last_text, saved>>
               ELSE /\ SaveErr(p, op, "auth_failed", "none", "rejected", answer)
                    /\ UNCHANGED panicked

\* save_buffer_to_path, lines 570-572: the write through perform_sudo_save
SudoWrite(p, op, text) ==
    \E r \in perform_sudo_save(files, temp_file, p, text) :
       /\ files' = r.files
       /\ temp_file' = r.temp
       /\ UNCHANGED <<panicked, sudo_password, sudo_expiry>>
       /\ IF r.ok THEN SaveOk(p, text, op, "sudo")
                  ELSE SaveErr(p, op, r.res, "sudo", "none", None)

\* save_buffer_to_path, lines 576-581: the write with fs::write
DirectWrite(p, op, text) ==
    \E r \in FsWrite(files, p, text) :
       /\ files' = r.files
       /\ UNCHANGED <<temp_file, panicked, sudo_password, sudo_expiry>>
       /\ IF r.ok THEN SaveOk(p, text, op, "direct")
                  ELSE SaveErr(p, op, "write_failed", "direct", "none", None)

\* save_buffer_to_path falling back to fs::write when the credential has expired
save_buffer_to_path_DirectWhenExpired(p, op) ==
    LET text == buffer
    IN  /\ UNCHANGED <<buffer, path, mode, undo_stack, redo_stack, is_programmatic,
                       now, ticks, loc, sudo_shown, view_vars>>
        /\ IF IsSome(sudo_password) /\ ~Expired(sudo_expiry, now)
           THEN SudoWrite(p, op, text)
           ELSE DirectWrite(p, op, text)

\* save_buffer_to_path(window, path)
save_buffer_to_path(p, op) ==
    LET text == buffer
    IN  /\ UNCHANGED <<buffer, path, mode, undo_stack, redo_stack, is_programmatic,
                       now, ticks, loc, sudo_shown, view_vars>>
        /\ IF IsSome(sudo_password)
           THEN IF Expired(sudo_expiry, now) THEN Reauth(p, op)
                                             ELSE SudoWrite(p, op, text)
           ELSE DirectWrite(p, op, text)

\* app.save with a path
Save ==
    /\ Idle
    /\ IsSome(path)
    /\ save_buffer_to_path(Unwrap(path), "save")
    /\ UNCHANGED pc

\* save_as_with_dialog (app.save_as, and app.save without a path): destination chosen
SaveAs(p) ==
    /\ Idle
    /\ save_buffer_to_path(p, "save_as")
    /\ UNCHANGED pc

\* save_as_with_dialog: the dialog is cancelled
SaveAsCancel ==
    /\ Idle
    /\ ev' = Ev("save_as", "cancelled", None)
    /\ UNCHANGED <<buffer, doc_vars, env_vars, pc, loc, panicked, view_vars, sudo_shown, saved>>

(***************************************************************************)
(* Search and replace                                                      *)
(***************************************************************************)
\* what the Find and Replace dialogs may be given
Patterns == {Empty, <<"a">>, <<"A">>, <<"b">>, <<"a", "b">>}
Replacements == {Empty, <<"c">>}

\* TextSearchFlags::CASE_INSENSITIVE compares the case-folded characters
Lower(c) == IF c = "A" THEN "a" ELSE IF c = "B" THEN "b" ELSE IF c = "C" THEN "c" ELSE c
Fold(t) == [i \in 1..Len(t) |-> Lower(t[i])]

\* pattern lies in text at offsets i .. i + Len(pattern)
MatchesAt(text, pattern, i, case_sensitive) ==
    /\ i + Len(pattern) <= Len(text)
    /\ LET part == SubSeq(text, i + 1, i + Len(pattern))
       IN  IF case_sensitive THEN part = pattern ELSE Fold(part) = Fold(pattern)

Min(S) == CHOOSE x \in S : \A y \in S : x <= y
Max(S) == CHOOSE x \in S : \A y \in S : x >= y

\* TextIter::forward_search from offset from: the first match that starts at or after it
forward_search(text, from, pattern, case_sensitive) ==
    LET hits == {i \in from..Len(text) : MatchesAt(text, pattern, i, case_sensitive)}
    IN  IF hits = {} THEN None ELSE Some(<<Min(hits), Min(hits) + Len(pattern)>>)

\* TextIter::backward_search from offset from: the last match that ends at or before it
backward_search(text, from, pattern, case_sensitive) ==
    LET hits == {i \in 0..from : /\ i + Len(pattern) <= from
                                 /\ MatchesAt(text, pattern, i, case_sensitive)}
    IN  IF hits = {} THEN None ELSE Some(<<Max(hits), Max(hits) + Len(pattern)>>)

\* search_in_buffer retrying from the cursor again instead of from the boundary
search_in_buffer_RetryFromCursor(text, cursor, pattern, forward, case_sensitive) ==
    IF pattern = Empty
    THEN [span |-> None, scans |-> 0]
    ELSE LET first == IF forward
                      THEN forward_search(text, cursor, pattern, case_sensitive)
                      ELSE backward_search(text, cursor, pattern, case_sensitive)
         IN  [span |-> first, scans |-> IF IsSome(first) THEN 1 ELSE 2]

\* search_in_buffer giving up after the scan from the cursor
search_in_buffer_NoWrap(text, cursor, pattern, forward, case_sensitive) ==
    IF pattern = Empty
    THEN [span |-> None, scans |-> 0]
    ELSE [span |-> IF forward THEN forward_search(text, cursor, pattern, case_sensitive)
                              ELSE backward_search(text, cursor, pattern, case_sensitive),
          scans |-> 1]

\* search_in_buffer without the early return for an empty pattern
search_in_buffer_NoEmptyCheck(text, cursor, pattern, forward, case_sensitive) ==
    LET first == IF forward THEN forward_search(text, cursor, pattern, case_sensitive)
                            ELSE backward_search(text, cursor, pattern, case_sensitive)
    IN  IF IsSome(first)
        THEN [span |-> first, scans |-> 1]
        ELSE [span |-> IF forward
                       THEN forward_search(text, 0, pattern, case_sensitive)
                       ELSE backward_search(text, Len(text), pattern, case_sensitive),
              scans |-> 2]

\* search_in_buffer: the span found, if any, and the number of scans made.  One scan
\* from the cursor; if it finds nothing, one more from the start of the buffer
\* (forward) or from its end (backward).
search_in_buffer(text, cursor, pattern, forward, case_sensitive) ==
    IF pattern = Empty
    THEN [span |-> None, scans |-> 0]
    ELSE LET first == IF forward
                      THEN forward_search(text, cursor, pattern, case_sensitive)
                      ELSE backward_search(text, cursor, pattern, case_sensitive)
         IN  IF IsSome(first)
             THEN [span |-> first, scans |-> 1]
             ELSE [span |-> IF forward
                            THEN forward_search(text, 0, pattern, case_sensitive)
                            ELSE backward_search(text, Len(text), pattern, case_sensitive),
                   scans |-> 2]

\* the tail of search_in_buffer: a match is selected with buffer.select_range
Select(r) ==
    IF IsSome(r.span)
    THEN marks' = [insert |-> Unwrap(r.span)[1], bound |-> Unwrap(r.span)[2]]
    ELSE UNCHANGED marks

\* the record a search leaves: found or not, and the number of scans
EvSearch(op, r) == Ev(op, IF IsSome(r.span) THEN "found" ELSE "none", Some(r.scans))

\* what the find handlers leave alone
FindKeeps ==
    UNCHANGED <<buffer, doc_vars, env_vars, pc, loc, panicked, sudo_shown, saved>>

\* the user puts the cursor somewhere in the text
MoveCursor(c) ==
    /\ Idle
    /\ c \in 0..Len(buffer)
    /\ marks # [insert |-> c, bound |-> c]
    /\ CursorAt(c)
    /\ ev' = Ev("cursor", "moved", Some(c))
    /\ UNCHANGED <<find_text, match_case>>
    /\ FindKeeps

\* open_find_dialog answered with Find Next: the parameters are stored, then a forward
\* search runs
Find(text, case_sensitive) ==
    /\ Idle
    /\ find_text' = text
    /\ match_case' = case_sensitive
    /\ LET r == search_in_buffer(buffer, marks.insert, text, TRUE, case_sensitive)
       IN  Select(r) /\ ev' = EvSearch("find", r)
    /\ FindKeeps

\* do_find_next / do_find_prev resetting the stored match-case flag as they search
FindAgain_ForgetsCase(forward) ==
    /\ Idle
    /\ LET op == IF forward THEN "find_next" ELSE "find_prev"
           pattern == find_text
       IN  IF pattern = Empty
           THEN ev' = Ev(op, "empty", None) /\ UNCHANGED marks
           ELSE LET r == search_in_buffer(buffer, marks.insert, pattern, forward,
                                          match_case)
                IN  Select(r) /\ ev' = EvSearch(op, r)
    /\ match_case' = FALSE
    /\ UNCHANGED find_text
    /\ FindKeeps

\* do_find_next / do_find_prev: nothing to do without a stored pattern
FindAgain(forward) ==
    /\ Idle
    /\ LET op == IF forward THEN "find_next" ELSE "find_prev"
           pattern == find_text
       IN  IF pattern = Empty
           THEN ev' = Ev(op, "empty", None) /\ UNCHANGED marks
           ELSE LET r == search_in_buffer(buffer, marks.insert, pattern, forward,
                                          match_case)
                IN  Select(r) /\ ev' = EvSearch(op, r)
    /\ UNCHANGED <<find_text, match_case>>
    /\ FindKeeps

\* open_replace_dialog answered with Replace: the parameters are stored, a forward
\* search runs, and a match is deleted and the replacement inserted in its place.
\* buffer.delete emits "changed" on the text without the match, buffer.insert emits it
\* again unless the replacement is empty.
Replace(text, replace_text, case_sensitive) ==
    /\ Idle
    /\ find_text' = text
    /\ match_case' = case_sensitive
    /\ LET r == search_in_buffer(buffer, marks.insert, text, TRUE, case_sensitive)
       IN  IF IsSome(r.span)
           THEN LET start == Unwrap(r.span)[1]
                    end == Unwrap(r.span)[2]
                    deleted == DeleteRange(buffer, start, end)
                    inserted == InsertAt(deleted, start, replace_text)
                    d1 == Changed(Doc, deleted)
                    d2 == IF replace_text # Empty THEN Changed(d1, inserted) ELSE d1
                IN  /\ buffer' = inserted
                    /\ SetDoc(d2)
                    /\ CursorAt(start + Len(replace_text))
                    /\ ev' = Ev("replace", "replaced", Some(r.scans))
           ELSE /\ ev' = EvSearch("replace", r)
                /\ UNCHANGED <<buffer, undo_stack, redo_stack, last_text, is_programmatic,
                               dirty, marks>>
    /\ UNCHANGED <<path, mode, sudo_password, sudo_expiry, env_vars, pc, loc, panicked,
                   sudo_shown, saved>>

(***************************************************************************)
(* Sudo mode, editing mode, the clock                                      *)
(***************************************************************************)
\* the enable branch storing the secret before it has been validated
SudoEnable_StoresBeforeValidating ==
    \E answer \in PromptAnswers, helper_runs \in BOOLEAN :
       IF answer = None
       THEN /\ ev' = EvFull("sudo_on", "cancelled", None, "none", "cancelled", None, "none")
            /\ UNCHANGED <<sudo_password, sudo_expiry, sudo_shown>>
       ELSE /\ sudo_password' = answer
            /\ sudo_expiry' = Some(now + SudoTtl)
            /\ IF validate_sudo_password(Unwrap(answer), helper_runs)
               THEN /\ set_sudo_state(TRUE)
                    /\ ev' = EvFull("sudo_on", "ok", None, "none", "accepted", answer,
                                    "none")
               ELSE /\ ev' = EvFull("sudo_on", "invalid", None, "none", "rejected", answer,
                                    "Invalid Password")
                    /\ UNCHANGED sudo_shown

\* sudo_mode change_state, lines 1223-1256: the request is to switch sudo mode on.  A
\* cancelled or empty prompt ends the handler with nothing shown.
SudoEnable ==
    \E answer \in PromptAnswers, helper_runs \in BOOLEAN :
       IF answer = None
       THEN /\ ev' = EvFull("sudo_on", "cancelled", None, "none", "cancelled", None, "none")
            /\ UNCHANGED <<sudo_password, sudo_expiry, sudo_shown>>
       ELSE IF validate_sudo_password(Unwrap(answer), helper_runs)
            THEN /\ sudo_password' = answer
                 /\ sudo_expiry' = Some(now + SudoTtl)
                 /\ set_sudo_state(TRUE)
                 /\ ev' = EvFull("sudo_on", "ok", None, "none", "accepted", answer, "none")
            ELSE /\ ev' = EvFull("sudo_on", "invalid", None, "none", "rejected", answer,
                                 "Invalid Password")
                 /\ UNCHANGED <<sudo_password, sudo_expiry, sudo_shown>>

\* the disable branch leaving the secret in place
SudoDisable_KeepsSecret ==
    /\ sudo_expiry' = None
    /\ set_sudo_state(FALSE)
    /\ ev' = EvFull("sudo_off", "ok", None, "none", "none", None, "Sudo Mode Disabled")
    /\ UNCHANGED sudo_password

\* sudo_mode change_state, lines 1257-1274: the request is to switch sudo mode off
SudoDisable ==
    /\ sudo_password' = None
    /\ sudo_expiry' = None
    /\ set_sudo_state(FALSE)
    /\ ev' = EvFull("sudo_off", "ok", None, "none", "none", None, "Sudo Mode Disabled")

\* sudo_mode change_state: the toggle requests the opposite of the action state
SudoToggle ==
    /\ Idle
    /\ LET new_state == ~sudo_shown
       IN IF new_state THEN SudoEnable ELSE SudoDisable
    /\ UNCHANGED <<buffer, path, mode, undo_stack, redo_stack, last_text, is_programmatic,
                   dirty, env_vars, pc, loc, panicked, view_vars, saved>>

\* buffer_is_empty
buffer_is_empty(b) == b = Empty

\* mode change_state handler that skips the test of the buffer
SetMode_NoEmptyCheck(requested_mode) ==
    /\ Idle
    /\ IF mode = requested_mode
       THEN ev' = Ev("mode", "same", Some(requested_mode)) /\ UNCHANGED mode
       ELSE mode' = requested_mode /\ ev' = Ev("mode", "ok", Some(requested_mode))
    /\ UNCHANGED <<buffer, path, undo_stack, redo_stack, last_text, is_programmatic, dirty,
                   sudo_password, sudo_expiry, env_vars, pc, loc, panicked, view_vars,
                   sudo_shown, saved>>

\* mode change_state handler: the same mode is a no-op, a buffer with content gets the
\* "Cannot change mode" dialog, an empty buffer takes the requested mode
SetMode(requested_mode) ==
    /\ Idle
    /\ IF mode = requested_mode
       THEN ev' = Ev("mode", "same", Some(requested_mode)) /\ UNCHANGED mode
       ELSE IF ~buffer_is_empty(buffer)
            THEN /\ ev' = EvFull("mode", "rejected", Some(requested_mode), "none", "none",
                                 None, "Cannot change mode while the document has content.")
                 /\ UNCHANGED mode
            ELSE mode' = requested_mode /\ ev' = Ev("mode", "ok", Some(requested_mode))
    /\ UNCHANGED <<buffer, path, undo_stack, redo_stack, last_text, is_programmatic, dirty,
                   sudo_password, sudo_expiry, env_vars, pc, loc, panicked, view_vars,
                   sudo_shown, saved>>

(***************************************************************************)
(* Closing the window                                                      *)
(***************************************************************************)
\* what every step of the close handlers leaves alone
CloseKeeps ==
    UNCHANGED <<buffer, path, mode, undo_stack, redo_stack, is_programmatic, sudo_password,
                sudo_expiry, now, ticks, loc, view_vars, sudo_shown>>

\* connect_close_request that lets the window close whatever the dirty flag says
CloseRequest_NeverAsks ==
    /\ pc \in {"idle", "close_retry"} /\ ~panicked
    /\ pc' = "closed"
    /\ ev' = Ev("close", "closed", Some(pc))
    /\ CloseKeeps
    /\ UNCHANGED <<dirty, last_text, saved, files, temp_file, panicked>>

\* connect_close_request, from the user or from win.close() in the prompt's response
\* handler: Proceed when not dirty, else show the prompt and Stop; ev.arg keeps where
\* the request came from
CloseRequest ==
    /\ pc \in {"idle", "close_retry"} /\ ~panicked
    /\ IF ~dirty
       THEN /\ pc' = "closed"
            /\ ev' = Ev("close", "closed", Some(pc))
       ELSE /\ pc' = "close_prompt"
            /\ ev' = EvFull("close", "prompt", Some(pc), "none", "none", None,
                            "Do you want to save changes to this document before closing?")
    /\ CloseKeeps
    /\ UNCHANGED <<dirty, last_text, saved, files, temp_file, panicked>>

\* the prompt answered with Cancel (or dismissed)
CloseCancel ==
    /\ pc = "close_prompt"
    /\ pc' = "idle"
    /\ ev' = Ev("close", "cancel", None)
    /\ CloseKeeps
    /\ UNCHANGED <<dirty, last_text, saved, files, temp_file, panicked>>

\* the Don't Save answer that calls win.close() without set_dirty(false)
CloseDiscard_KeepsDirty ==
    /\ pc = "close_prompt"
    /\ pc' = "close_retry"
    /\ ev' = Ev("close", "discard", None)
    /\ CloseKeeps
    /\ UNCHANGED <<dirty, last_text, saved, files, temp_file, panicked>>

\* the prompt answered with Don't Save: set_dirty(false), then win.close()
CloseDiscard ==
    /\ pc = "close_prompt"
    /\ dirty' = FALSE
    /\ pc' = "close_retry"
    /\ ev' = Ev("close", "discard", None)
    /\ CloseKeeps
    /\ UNCHANGED <<last_text, saved, files, temp_file, panicked>>

\* a save made for the close prompt that calls win.close() whatever the result
AfterCloseSave_AlwaysCloses == pc' = "close_retry"

\* where a save made for the close prompt leaves the window: win.close() on Ok
AfterCloseSave == pc' = IF ev'.res = "ok" THEN "close_retry" ELSE "idle"

\* the prompt answered with Save: save to the path, or show the Save As dialog
CloseSave ==
    /\ pc = "close_prompt"
    /\ IF IsSome(path)
       THEN save_buffer_to_path(Unwrap(path), "close_save") /\ AfterCloseSave
       ELSE /\ pc' = "close_save_as"
            /\ ev' = Ev("close", "save_as", None)
            /\ CloseKeeps
            /\ UNCHANGED <<dirty, last_text, saved, files, temp_file, panicked>>

\* save_as_with_dialog_and_then_close: a destination is chosen
CloseSaveAs(p) ==
    /\ pc = "close_save_as"
    /\ save_buffer_to_path(p, "close_save_as") /\ AfterCloseSave

\* save_as_with_dialog_and_then_close: the dialog is cancelled
CloseSaveAsCancel ==
    /\ pc = "close_save_as"
    /\ pc' = "idle"
    /\ ev' = Ev("close_save_as", "cancelled", None)
    /\ CloseKeeps
    /\ UNCHANGED <<dirty, last_text, saved, files, temp_file, panicked>>

\* time passes between handlers: up to the instant a credential set now would expire,
\* or one second past it
Tick ==
    /\ Idle
    /\ ticks < MaxTicks
    /\ \E d \in {SudoTtl, SudoTtl + 1} : now' = now + d
    /\ ticks' = ticks + 1
    /\ UNCHANGED <<buffer, doc_vars, files, temp_file, pc, loc, panicked, view_vars, sudo_shown,
                   saved, ev>>

(***************************************************************************)
(* The session                                                             *)
(***************************************************************************)
\* the document handlers: editing, history, new, open, save with sudo mode off;
\* no run of edits is followed
Next ==
    \/ StartNoFile /\ UNCHANGED <<sym, procs>>
    \/ (\E t \in Texts : UserEdit(t)) /\ UNCHANGED <<sym, procs>>
    \/ ChangedSameText /\ UNCHANGED <<sym, procs>>
    \/ Undo /\ UNCHANGED <<sym, procs>>
    \/ UndoEnd /\ UNCHANGED <<sym, procs>>
    \/ Redo /\ UNCHANGED <<sym, procs>>
    \/ RedoEnd /\ UNCHANGED <<sym, procs>>
    \/ NewBegin /\ UNCHANGED <<sym, procs>>
    \/ NewEnd /\ UNCHANGED <<sym, procs>>
    \/ (\E p \in Paths : LoadFail(p)) /\ UNCHANGED <<sym, procs>>
    \/ (\E p \in Paths : LoadBegin(p)) /\ UNCHANGED <<sym, procs>>
    \/ LoadEnd /\ UNCHANGED <<sym, procs>>
    \/ Save /\ UNCHANGED <<sym, procs>>
    \/ (\E p \in Paths : SaveAs(p)) /\ UNCHANGED <<sym, procs>>
    \/ SaveAsCancel /\ UNCHANGED <<sym, procs>>

\* started in Plain mode, with no FILE argument or with p1, which holds "a"
InitPlain == Init /\ mode = "Plain" /\ path \in {None, Some("p1")} /\ files = InitFiles

Spec == InitPlain /\ [][Next]_vars

(***************************************************************************)
(* Following a run of edits, then undos, then redos                        *)
(***************************************************************************)
\* a user edit starts a run at the text before it, or extends the run of edits
SymEdit ==
    sym' = IF sym.phase = "edits"
           THEN [sym EXCEPT !.n = sym.n + 1, !.tn = buffer']
           ELSE [phase |-> "edits", t0 |-> buffer, tn |-> buffer', n |-> 1, k |-> 0]

\* a completed undo counts while the run has edits left to undo
SymUndo ==
    sym' = IF sym.phase \in {"edits", "undos"} /\ sym.k < sym.n
           THEN [sym EXCEPT !.phase = "undos", !.k = sym.k + 1]
           ELSE NoSym

\* a completed redo counts once every edit of the run has been undone
SymRedo ==
    sym' = IF sym.phase = "undos" /\ sym.k = sym.n
           THEN [sym EXCEPT !.phase = "redos", !.k = 1]
           ELSE IF sym.phase = "redos" /\ sym.k < sym.n
                THEN [sym EXCEPT !.k = sym.k + 1]
                ELSE NoSym

\* editing and history only, with the run of edits followed
NextSym ==
    \/ StartNoFile /\ UNCHANGED <<sym, procs>>
    \/ (\E t \in Texts : UserEdit(t)) /\ SymEdit /\ UNCHANGED procs
    \/ Undo /\ (IF undo_stack = <<>> THEN sym' = NoSym ELSE UNCHANGED sym) /\ UNCHANGED procs
    \/ UndoEnd /\ SymUndo /\ UNCHANGED procs
    \/ Redo /\ (IF redo_stack = <<>> THEN sym' = NoSym ELSE UNCHANGED sym) /\ UNCHANGED procs
    \/ RedoEnd /\ SymRedo /\ UNCHANGED procs
    \/ (\E p \in Paths : LoadBegin(p)) /\ sym' = NoSym /\ UNCHANGED procs
    \/ LoadEnd /\ UNCHANGED <<sym, procs>>
    \/ (\E p \in Paths : SaveAs(p)) /\ sym' = NoSym /\ UNCHANGED procs

SpecSym == InitPlain /\ [][NextSym]_vars

(***************************************************************************)
(* Sudo mode                                                               *)
(***************************************************************************)
\* saving with sudo mode switched on and off while time passes: one edit per document,
\* and the clock followed only while a credential is stored
NextSudo ==
    \/ StartNoFile /\ UNCHANGED <<sym, procs>>
    \/ (\E t \in Texts : UserEdit(t) /\ undo_stack = <<>>) /\ UNCHANGED <<sym, procs>>
    \/ (\E p \in Paths : LoadFail(p)) /\ UNCHANGED <<sym, procs>>
    \/ (\E p \in Paths : LoadBegin(p)) /\ UNCHANGED <<sym, procs>>
    \/ LoadEnd /\ UNCHANGED <<sym, procs>>
    \/ NewBegin /\ UNCHANGED <<sym, procs>>
    \/ NewEnd /\ UNCHANGED <<sym, procs>>
    \/ Save /\ UNCHANGED <<sym, procs>>
    \/ (\E p \in Paths : SaveAs(p)) /\ UNCHANGED <<sym, procs>>
    \/ SudoToggle /\ UNCHANGED <<sym, procs>>
    \/ Tick /\ IsSome(sudo_expiry) /\ UNCHANGED <<sym, procs>>

SpecSudo == InitPlain /\ [][NextSudo]_vars

(***************************************************************************)
(* Editing mode and closing the window                                     *)
(***************************************************************************)
\* editing, history, new, open and save with sudo mode off, the mode handler and the
\* close request with its prompt
NextWin ==
    \/ StartNoFile /\ UNCHANGED <<sym, procs>>
    \/ (\E t \in Texts : UserEdit(t)) /\ UNCHANGED <<sym, procs>>
    \/ Undo /\ UNCHANGED <<sym, procs>>
    \/ UndoEnd /\ UNCHANGED <<sym, procs>>
    \/ NewBegin /\ UNCHANGED <<sym, procs>>
    \/ NewEnd /\ UNCHANGED <<sym, procs>>
    \/ (\E p \in Paths : LoadFail(p)) /\ UNCHANGED <<sym, procs>>
    \/ (\E p \in Paths : LoadBegin(p)) /\ UNCHANGED <<sym, procs>>
    \/ LoadEnd /\ UNCHANGED <<sym, procs>>
    \/ Save /\ UNCHANGED <<sym, procs>>
    \/ (\E p \in Paths : SaveAs(p)) /\ UNCHANGED <<sym, procs>>
    \/ (\E m \in Modes : SetMode(m)) /\ UNCHANGED <<sym, procs>>
    \/ CloseRequest /\ UNCHANGED <<sym, procs>>
    \/ CloseCancel /\ UNCHANGED <<sym, procs>>
    \/ CloseDiscard /\ UNCHANGED <<sym, procs>>
    \/ CloseSave /\ UNCHANGED <<sym, procs>>
    \/ (\E p \in Paths : CloseSaveAs(p)) /\ UNCHANGED <<sym, procs>>
    \/ CloseSaveAsCancel /\ UNCHANGED <<sym, procs>>

SpecWin == InitPlain /\ [][NextWin]_vars

(***************************************************************************)
(* Searching                                                               *)
(***************************************************************************)
\* open, new, the cursor, find, find next and previous, replace, undo
NextSearch ==
    \/ StartNoFile /\ UNCHANGED <<sym, procs>>
    \/ (\E p \in Paths : LoadBegin(p)) /\ UNCHANGED <<sym, procs>>
    \/ LoadEnd /\ UNCHANGED <<sym, procs>>
    \/ NewBegin /\ UNCHANGED <<sym, procs>>
    \/ NewEnd /\ UNCHANGED <<sym, procs>>
    \/ (\E c \in 0..Len(buffer) : MoveCursor(c)) /\ UNCHANGED <<sym, procs>>
    \/ (\E t \in Patterns, cs \in BOOLEAN : Find(t, cs)) /\ UNCHANGED <<sym, procs>>
    \/ FindAgain(TRUE) /\ UNCHANGED <<sym, procs>>
    \/ FindAgain(FALSE) /\ UNCHANGED <<sym, procs>>
    \/ (\E t \in Patterns, r \in Replacements, cs \in BOOLEAN :
           Replace(t, r, cs) /\ Len(undo_stack) < MaxHist) /\ UNCHANGED <<sym, procs>>
    \/ Undo /\ UNCHANGED <<sym, procs>>
    \/ UndoEnd /\ UNCHANGED <<sym, procs>>

\* started in Plain mode with no FILE argument; p1 holds "abA"
InitSearch == Init /\ mode = "Plain" /\ path = None /\ files = SearchFiles

SpecSearch == InitSearch /\ [][NextSearch]_vars

(***************************************************************************)
(* Editing, replacing and history together                                 *)
(***************************************************************************)
\* editing, history, new, open, save to the current path, and the Replace dialog
\* looking for a single letter without regard to case
NextEdit ==
    \/ StartNoFile /\ UNCHANGED <<sym, procs>>
    \/ (\E t \in Texts : UserEdit(t)) /\ UNCHANGED <<sym, procs>>
    \/ Undo /\ UNCHANGED <<sym, procs>>
    \/ UndoEnd /\ UNCHANGED <<sym, procs>>
    \/ Redo /\ UNCHANGED <<sym, procs>>
    \/ RedoEnd /\ UNCHANGED <<sym, procs>>
    \/ NewBegin /\ UNCHANGED <<sym, procs>>
    \/ NewEnd /\ UNCHANGED <<sym, procs>>
    \/ (\E p \in Paths : LoadBegin(p)) /\ UNCHANGED <<sym, procs>>
    \/ LoadEnd /\ UNCHANGED <<sym, procs>>
    \/ Save /\ UNCHANGED <<sym, procs>>
    \/ (\E t \in {<<"a">>, <<"b">>}, r \in Replacements :
           Replace(t, r, FALSE) /\ Len(undo_stack) < MaxHist) /\ UNCHANGED <<sym, procs>>

SpecEdit == InitPlain /\ [][NextEdit]_vars

(***************************************************************************)
(* Two editor processes saving through sudo                                *)
(***************************************************************************)
\* the first process saves to p1, the one opened with New Window to p2
Dest(i) == IF i = 1 THEN "p1" ELSE "p2"

\* what a step of either process's perform_sudo_save leaves alone
SudoSaveKeeps ==
    UNCHANGED <<buffer, doc_vars, view_vars, now, ticks, pc, loc, panicked, sudo_shown,
                saved, ev, sym>>

\* perform_sudo_save in process i: fs::write(&temp_file, content) into the temp
\* directory both processes use
StageTemp(i, content) ==
    /\ procs[i].pc = "idle"
    /\ temp_file' = Some(content)
    /\ procs' = [procs EXCEPT ![i] = [pc |-> "staged", text |-> content, res |-> "none"]]
    /\ UNCHANGED files
    /\ SudoSaveKeeps

\* the child of process i runs: sudo cp copies what the temp file holds now, and fails
\* when there is no such file
RunCp(i) ==
    /\ procs[i].pc = "staged"
    /\ IF IsSome(temp_file)
       THEN /\ files' = [files EXCEPT ![Dest(i)] = temp_file]
            /\ procs' = [procs EXCEPT ![i].pc = "copied"]
       ELSE /\ UNCHANGED files
            /\ procs' = [procs EXCEPT ![i].pc = "cp_failed"]
    /\ UNCHANGED temp_file
    /\ SudoSaveKeeps

\* child.wait() returns in process i: the temp file is removed, the exit status decides
\* between Ok(()) and Err("Sudo save failed")
WaitChild(i) ==
    /\ procs[i].pc \in {"copied", "cp_failed"}
    /\ temp_file' = None
    /\ procs' = [procs EXCEPT ![i].pc = "idle",
                              ![i].res = IF procs[i].pc = "copied" THEN "ok" ELSE "err"]
    /\ UNCHANGED files
    /\ SudoSaveKeeps

\* both processes hold a valid credential and save their own text, step by step
NextTwo ==
    \/ \E i \in Procs : StageTemp(i, IF i = 1 THEN <<"a">> ELSE <<"a", "b">>)
    \/ \E i \in Procs : RunCp(i)
    \/ \E i \in Procs : WaitChild(i)

SpecTwo == InitPlain /\ [][NextTwo]_vars

(***************************************************************************)
(* Properties of the document handlers                                     *)
(***************************************************************************)
Saves == {"save", "save_as"}
\* the last handler to finish was a save that succeeded
JustSaved == pc = "idle" /\ ev.op \in Saves /\ ev.res = "ok"

\* C2: a text change that arrives while is_programmatic is false and differs from
\* last_text pushes exactly the old last_text onto the undo stack, empties the redo
\* stack, makes the new text last_text and sets dirty.
C2_EditRecorded ==
    [][(buffer' # buffer /\ ~is_programmatic /\ ~is_programmatic' /\ buffer' # last_text)
         => /\ undo_stack' = Append(undo_stack, last_text)
            /\ redo_stack' = <<>>
            /\ last_text' = buffer'
            /\ dirty' = TRUE]_vars

\* an edit made on top of earlier history has been recorded
C2_Witness ==
    /\ pc = "idle" /\ ev.op = "edit"
    /\ Len(undo_stack) = 2 /\ redo_stack = <<>> /\ dirty /\ last_text = buffer

\* C3: undo on a non-empty undo stack removes exactly the top entry, pushes exactly the
\* text that was current onto the redo stack and makes the removed entry the buffer
\* text and last_text; the buffer change it causes records nothing.  redo mirrors it.
\* Both keep |undo| + |redo| constant.
C3_UndoRedoMoveOneEntry ==
    [][/\ (pc = "idle" /\ pc' = "undo")
            => /\ undo_stack' = Pop(undo_stack)
               /\ redo_stack' = Append(redo_stack, buffer)
               /\ buffer' = Top(undo_stack)
       /\ (pc = "undo" /\ pc' = "idle")
            => /\ UNCHANGED <<undo_stack, redo_stack, buffer>>
               /\ last_text' = buffer
       /\ (pc = "idle" /\ pc' = "redo")
            => /\ redo_stack' = Pop(redo_stack)
               /\ undo_stack' = Append(undo_stack, buffer)
               /\ buffer' = Top(redo_stack)
       /\ (pc = "redo" /\ pc' = "idle")
            => /\ UNCHANGED <<undo_stack, redo_stack, buffer>>
               /\ last_text' = buffer
       /\ (pc \in {"undo", "redo"} \/ pc' \in {"undo", "redo"})
            => Len(undo_stack') + Len(redo_stack') = Len(undo_stack) + Len(redo_stack)]_vars

\* two undos in a row have moved two entries onto the redo stack
C3_Witness ==
    /\ pc = "idle" /\ ev = Ev("undo", "ok", None)
    /\ Len(redo_stack) = 2 /\ last_text = buffer

\* C4: undo with an empty undo stack and redo with an empty redo stack change nothing:
\* buffer, last_text, both stacks, dirty, path, mode and the credential stay, and the
\* handler returns normally.
C4_EmptyHistoryNoOp ==
    [][((Undo /\ undo_stack = <<>>) \/ (Redo /\ redo_stack = <<>>))
         => /\ UNCHANGED <<buffer, last_text, undo_stack, redo_stack, dirty, path, mode,
                           sudo_password, sudo_expiry>>
            /\ pc' = "idle"
            /\ panicked' = FALSE]_vars

\* undo was invoked on a loaded, non-empty document with no history
C4_Witness ==
    /\ pc = "idle" /\ ev = Ev("undo", "empty", None)
    /\ buffer # Empty /\ undo_stack = <<>> /\ IsSome(path)

\* C5: every buffer replacement the session makes itself (load, new, undo, redo) runs
\* with is_programmatic set, so at no point during load or new does the replacement
\* push a snapshot or set dirty.
C5_ReplacementNotRecorded ==
    [][(pc \in {"idle", "start"} /\ pc' \in {"new", "load", "undo", "redo"})
         => /\ (buffer' # buffer => is_programmatic' = TRUE)
            /\ (pc' \in {"new", "load"} => UNCHANGED <<undo_stack, dirty>>)]_vars

\* C6: is_programmatic is false whenever no handler is running, whichever way the
\* last load, new, undo or redo ended.
C6_FlagClearWhenIdle == pc \in {"idle", "start"} => is_programmatic = FALSE

\* an undo has run to its end
C6_Witness == pc = "idle" /\ ev = Ev("undo", "ok", None) /\ ~is_programmatic

\* C7: between operations dirty is true exactly when the buffer text differs from the
\* text of the last successful save or load (the empty text after new).
C7_DirtyIffModified == Idle => (dirty <=> buffer # saved)

\* C8: after a successful save dirty is false and last_text is the saved text, and a
\* changed signal carrying that same text leaves both stacks, last_text and dirty alone.
C8_SaveThenSameTextNoOp ==
    /\ [](JustSaved => (dirty = FALSE /\ last_text = buffer /\ saved = buffer))
    /\ [][(JustSaved /\ ChangedSameText)
            => UNCHANGED <<undo_stack, redo_stack, last_text, dirty>>]_vars

\* the changed signal arrived on a saved document that has history
C8_Witness ==
    /\ pc = "idle" /\ ev.op = "changed"
    /\ ~dirty /\ undo_stack # <<>> /\ buffer # Empty /\ saved = buffer

\* C10: after a successful save to a destination the session path is that destination.
C10_PathSetOnSave == JustSaved => path = ev.arg

(***************************************************************************)
(* Properties of a run of edits                                            *)
(***************************************************************************)
\* C1: after n user edits from text T0, each changing the text, n undos bring the
\* buffer and last_text back to T0, and n redos after that bring them to the text the
\* edits ended with.
C1_SnapshotSymmetry ==
    pc = "idle" =>
        /\ (sym.phase = "undos" /\ sym.k = sym.n)
              => (buffer = sym.t0 /\ last_text = sym.t0)
        /\ (sym.phase = "redos" /\ sym.k = sym.n)
              => (buffer = sym.tn /\ last_text = sym.tn)

\* a run of two edits was undone and then redone in full
C1_Witness ==
    /\ pc = "idle" /\ sym.phase = "redos" /\ sym.n = 2 /\ sym.k = 2
    /\ Len(undo_stack) = 2 /\ sym.t0 # sym.tn

(***************************************************************************)
(* Properties of saving                                                    *)
(***************************************************************************)
\* C9: after a successful save, direct or through sudo, the destination file holds
\* exactly the buffer text.
C9_FileHoldsBuffer == JustSaved => files[Unwrap(ev.arg)] = Some(buffer)

\* a save through sudo of a non-empty text over a file that held something else
C9_Witness ==
    /\ JustSaved /\ IsSome(sudo_password) /\ buffer = <<"a", "b">>
    /\ ev.arg = Some("p1")

\* a step in which a handler ran from start to return, not the clock
HandlerStep == pc = "idle" /\ ~panicked /\ pc' = "idle" /\ now' = now
\* a step of a save handler (app.save with a path, or the Save As dialog accepted),
\* recognised by the record it leaves in ev
SaveStep == HandlerStep /\ ev'.op \in Saves /\ ev'.res # "cancelled"
\* a step of the sudo_mode handler
SudoStep == HandlerStep /\ ev'.op \in {"sudo_on", "sudo_off"}
\* the errors save_buffer_to_path returns
SaveFailures == {"write_failed", "temp_write_failed", "spawn_failed", "wait_failed",
                 "exit_nonzero", "auth_failed", "auth_cancelled"}

\* C11: a save that fails (direct write error, staging-file write error, helper not
\* spawned or not waited for, helper exiting non-zero, re-authentication rejected or
\* cancelled) returns its error to the caller and leaves dirty, last_text, path, mode
\* and both history stacks as they were.
C11_FailedSaveKeepsState ==
    [][(SaveStep /\ ev'.res \in SaveFailures)
         => /\ UNCHANGED <<dirty, last_text, path, mode, undo_stack, redo_stack>>
            /\ pc' = "idle" /\ panicked' = FALSE]_vars

\* a save through sudo of an edited document failed because sudo exited non-zero
C11_Witness ==
    /\ pc = "idle" /\ ev.op = "save" /\ ev.res = "exit_nonzero"
    /\ dirty /\ undo_stack # <<>> /\ last_text = buffer

\* the errors of a write that did not complete
WriteFailures == {"write_failed", "temp_write_failed", "spawn_failed", "wait_failed",
                  "exit_nonzero"}

\* C12: when a save fails with a write error, on the direct path or through the
\* staging file and sudo, the destination file has the content it had before the save.
C12_FailedWriteKeepsFile ==
    [][(SaveStep /\ ev'.res \in WriteFailures) => files' = files]_vars

\* C13: a save with an expired credential where the prompt is cancelled or the new
\* secret is rejected returns an error without writing the destination or the staging
\* file, and leaves the stored credential, its expiry, dirty and last_text as they were.
C13_ReauthFailureTouchesNothing ==
    [][(SaveStep /\ IsSome(sudo_password) /\ Expired(sudo_expiry, now)
          /\ ev'.prompt \in {"cancelled", "rejected"})
         => /\ ev'.res \in {"auth_cancelled", "auth_failed"}
            /\ UNCHANGED <<files, temp_file, sudo_password, sudo_expiry, dirty, last_text>>
            /\ pc' = "idle" /\ panicked' = FALSE]_vars

\* the secret typed at the re-prompt of an edited document was rejected
C13_Witness ==
    /\ pc = "idle" /\ ev.op \in Saves /\ ev.res = "auth_failed" /\ ev.answer = Some("bad")
    /\ dirty /\ IsSome(sudo_password) /\ Expired(sudo_expiry, now)

\* C14: a save with an expired credential where the new secret is accepted stores the
\* new secret with expiry now + 300 s, goes on to the write through sudo and returns
\* its result, without an uncaught fault.
C14_ReauthRefreshesAndSaves ==
    [][(SaveStep /\ IsSome(sudo_password) /\ Expired(sudo_expiry, now)
          /\ ev'.prompt = "accepted")
         => /\ panicked' = FALSE
            /\ sudo_password' = ev'.answer
            /\ sudo_expiry' = Some(now + SudoTtl)
            /\ ev'.via = "sudo"
            /\ ev'.res \in {"ok"} \cup WriteFailures]_vars

\* C15: the session chooses the write path by the stored credential alone: with no
\* credential the save writes with fs::write and leaves the staging file alone; with a
\* credential it never writes directly; with a credential that is still valid
\* (now <= expiry) it writes through the staging file and sudo without a prompt.
C15_SessionDecidesWritePath ==
    [][SaveStep
         => /\ (sudo_password = None
                  => ev'.via = "direct" /\ ev'.prompt = "none" /\ temp_file' = temp_file)
            /\ (IsSome(sudo_password) => ev'.via # "direct")
            /\ ((IsSome(sudo_password) /\ IsSome(sudo_expiry) /\ now <= Unwrap(sudo_expiry))
                  => ev'.via = "sudo" /\ ev'.prompt = "none")
            /\ (ev'.via = "none" => UNCHANGED <<files, temp_file>>)]_vars

\* a loaded and edited document was saved through sudo, some time after sudo mode was
\* switched on, without a prompt
C15_Witness ==
    /\ JustSaved /\ ev.op = "save" /\ ev.via = "sudo" /\ ev.prompt = "none"
    /\ ticks = 1 /\ undo_stack # <<>> /\ files[Unwrap(path)] = Some(buffer)

\* C16: once a write through sudo has returned, whether sudo exited with success,
\* exited non-zero, could not be spawned or could not be waited for, the staging file
\* does not exist.
C16_StagingFileRemoved ==
    (pc = "idle" /\ ev.op \in Saves /\ ev.via = "sudo"
       /\ ev.res \in {"ok", "exit_nonzero", "spawn_failed", "wait_failed"})
      => temp_file = None

(***************************************************************************)
(* Properties of sudo mode                                                 *)
(***************************************************************************)
\* C17: switching sudo mode on validates the typed secret first.  An accepted secret
\* is one sudo accepts, it is stored with expiry now + 300 s and sudo mode is on.  A
\* rejected secret stores nothing, leaves sudo mode off and the rest of the session as
\* it was, and the error dialog is shown.
C17_EnableValidatesFirst ==
    [][(SudoStep /\ ~sudo_shown)
         => /\ (ev'.prompt = "accepted"
                  => /\ Unwrap(ev'.answer) \in GoodSecrets
                     /\ sudo_password' = ev'.answer
                     /\ sudo_expiry' = Some(now + SudoTtl)
                     /\ sudo_shown' = TRUE)
            /\ ((IsSome(ev'.answer) /\ Unwrap(ev'.answer) \notin GoodSecrets)
                  => ev'.prompt = "rejected")
            /\ (ev'.prompt = "rejected"
                  => /\ sudo_password' = None /\ sudo_expiry' = None /\ sudo_shown' = FALSE
                     /\ ev'.shown = "Invalid Password"
                     /\ UNCHANGED <<buffer, path, mode, undo_stack, redo_stack, last_text,
                                    is_programmatic, dirty, files, temp_file>>)]_vars

\* a wrong secret was typed when switching sudo mode on for an edited document
C17_Witness ==
    /\ pc = "idle" /\ ev.op = "sudo_on" /\ ev.prompt = "rejected" /\ ev.answer = Some("bad")
    /\ dirty /\ sudo_password = None /\ ~sudo_shown

\* C18: when the prompt is cancelled (or left empty) while switching sudo mode on, sudo
\* mode stays off and the user is shown an error that differs from the one for a
\* rejected secret.
C18_CancelledEnableIsReported ==
    (pc = "idle" /\ ev.op = "sudo_on" /\ ev.prompt = "cancelled")
      => /\ sudo_password = None /\ ~sudo_shown
         /\ ev.shown \notin {"none", "Invalid Password"}

\* C19: switching sudo mode off drops the stored secret and its expiry at once,
\* whatever the expiry was, and while sudo mode is off every save writes directly.
C19_DisableDropsCredential ==
    /\ [][(SudoStep /\ sudo_shown)
            => sudo_password' = None /\ sudo_expiry' = None /\ sudo_shown' = FALSE]_vars
    /\ [][(SaveStep /\ ~sudo_shown) => ev'.via = "direct"]_vars

\* sudo mode was switched off after its credential had expired
C19_Witness ==
    /\ pc = "idle" /\ ev.op = "sudo_off" /\ now > SudoTtl
    /\ sudo_password = None /\ sudo_expiry = None /\ ~sudo_shown

\* C20: a credential is stored with expiry now + 300 s and is valid exactly while
\* now <= expiry: a save at the instant of expiry uses the stored secret without a
\* prompt, a save after it asks again, and a secret without an expiry counts as
\* expired.
C20_ValidUntilExpiry ==
    /\ [](Expired(None, now) /\ (IsSome(sudo_password) <=> IsSome(sudo_expiry)))
    /\ [][(SudoStep /\ ev'.op = "sudo_on" /\ ev'.res = "ok")
            => sudo_expiry' = Some(now + SudoTtl)]_vars
    /\ [][(SaveStep /\ IsSome(sudo_password) /\ IsSome(sudo_expiry))
            => IF now <= Unwrap(sudo_expiry)
               THEN ev'.via = "sudo" /\ ev'.prompt = "none"
               ELSE ev'.via = "none" /\ ev'.prompt # "none"]_vars

\* a save at the very instant the credential expires went through sudo, unprompted
C20_Witness ==
    /\ JustSaved /\ ev.via = "sudo" /\ ev.prompt = "none"
    /\ sudo_expiry = Some(now) /\ now = SudoTtl

(***************************************************************************)
(* Properties of the editing mode and of closing                           *)
(***************************************************************************)
\* a step of the mode handler
ModeStep == HandlerStep /\ ev'.op = "mode"
\* what the mode handler may not touch
ModeKeeps == UNCHANGED <<buffer, path, dirty, undo_stack, redo_stack, last_text>>

\* C21: mode changes only in a step of the mode handler taken on an empty buffer.  The
\* handler asked for the current mode changes nothing; asked for the other mode on a
\* buffer with text it changes nothing and shows the warning; asked for the other mode
\* on an empty buffer it sets mode to the requested value.
C21_ModeChangesOnlyWhenEmpty ==
    [][/\ (mode' # mode => (ModeStep /\ buffer = Empty))
       /\ (ModeStep
             => LET requested == Unwrap(ev'.arg)
                IN  /\ ModeKeeps
                    /\ (requested = mode => UNCHANGED mode)
                    /\ ((requested # mode /\ buffer # Empty)
                          => /\ UNCHANGED mode
                             /\ ev'.shown
                                  = "Cannot change mode while the document has content.")
                    /\ ((requested # mode /\ buffer = Empty) => mode' = requested))]_vars

\* the mode was changed on an empty document, text was typed, and a change back was
\* refused
C21_Witness ==
    /\ pc = "idle" /\ ev.op = "mode" /\ ev.res = "rejected" /\ ev.arg = Some("Plain")
    /\ mode = "Markup" /\ buffer # Empty /\ dirty

\* a close request is handled
CloseRequestStep == pc \in {"idle", "close_retry"} /\ pc' \in {"closed", "close_prompt"}
\* the session state a prompt and its Cancel answer may not touch
SessionKeeps ==
    UNCHANGED <<buffer, path, mode, dirty, last_text, undo_stack, redo_stack,
                is_programmatic, sudo_password, sudo_expiry, files, temp_file>>

\* C22: a close request with dirty false closes the window at once, with no prompt; a
\* close request with dirty true leaves the window open and shows the Save / Don't
\* Save / Cancel prompt; Cancel changes no session state and leaves the window open.
C22_ClosePromptsOnlyWhenDirty ==
    [][/\ ((CloseRequestStep /\ ~dirty) => (pc' = "closed" /\ ev'.shown = "none"))
       /\ ((CloseRequestStep /\ dirty)
             => /\ pc' = "close_prompt"
                /\ ev'.shown = "Do you want to save changes to this document before closing?"
                /\ SessionKeeps)
       /\ ((pc = "close_prompt" /\ ev'.op = "close" /\ ev'.res = "cancel")
             => (pc' = "idle" /\ SessionKeeps))]_vars

\* the prompt of an edited document was answered with Cancel
C22_Witness ==
    /\ pc = "idle" /\ ev = Ev("close", "cancel", None)
    /\ dirty /\ buffer # saved /\ undo_stack # <<>>

\* C23: Don't Save sets dirty to false before the close is retried, and the retried
\* close request closes the window without a second prompt.
C23_DiscardClosesWithoutSecondPrompt ==
    [][/\ ((pc = "close_prompt" /\ ev'.op = "close" /\ ev'.res = "discard")
             => (dirty' = FALSE /\ pc' = "close_retry"))
       /\ ((pc = "close_retry" /\ ev.res = "discard")
             => (pc' = "closed" /\ ev'.shown = "none"))]_vars

\* the window closed on the retry, with the unsaved text discarded
C23_Witness ==
    /\ pc = "closed" /\ ev = Ev("close", "closed", Some("close_retry"))
    /\ ~dirty /\ buffer # saved

(***************************************************************************)
(* Properties of load and new                                              *)
(***************************************************************************)
\* C24: after a successful load, whatever the session was before, the buffer text and
\* last_text are the file contents, path is the loaded path, dirty is false, both
\* history stacks are empty, no credential or expiry is stored and is_programmatic is
\* false.
C24_LoadResetsSession ==
    (pc = "idle" /\ ev.op = "load" /\ ev.res = "ok")
      => /\ buffer = Unwrap(files[Unwrap(ev.arg)]) /\ last_text = buffer
         /\ path = ev.arg
         /\ dirty = FALSE
         /\ undo_stack = <<>> /\ redo_stack = <<>>
         /\ sudo_password = None /\ sudo_expiry = None /\ sudo_shown = FALSE
         /\ is_programmatic = FALSE

\* a file was loaded into a session that had stored a credential and written p2
C24_Witness ==
    /\ pc = "idle" /\ ev = Ev("load", "ok", Some("p1"))
    /\ ticks = 1 /\ IsSome(files["p2"]) /\ buffer # Empty

\* a load that failed, at start or from the Open dialog
LoadFailStep ==
    /\ pc \in {"idle", "start"} /\ ~panicked /\ pc' = "idle" /\ now' = now
    /\ ev'.op = "load" /\ ev'.res = "err"

\* C25: a load whose file cannot be read returns its error and leaves buffer text,
\* last_text, path, dirty, both history stacks, mode and the credential as they were.
C25_FailedLoadKeepsDocument ==
    [][LoadFailStep
         => /\ UNCHANGED <<buffer, last_text, path, dirty, undo_stack, redo_stack, mode,
                           sudo_password, sudo_expiry, is_programmatic>>
            /\ panicked' = FALSE]_vars

\* a load failed on an edited document with sudo mode on
C25_Witness ==
    /\ pc = "idle" /\ ev.op = "load" /\ ev.res = "err"
    /\ dirty /\ undo_stack # <<>> /\ IsSome(sudo_password) /\ buffer # Empty

\* C26: new ends as a load of empty contents with no path would: buffer text and
\* last_text are empty, path is unset, dirty is false, both history stacks are empty,
\* no credential is stored and is_programmatic is false.
C26_NewResetsSession ==
    (pc = "idle" /\ ev.op = "new")
      => /\ buffer = Empty /\ last_text = Empty
         /\ path = None
         /\ dirty = FALSE
         /\ undo_stack = <<>> /\ redo_stack = <<>>
         /\ sudo_password = None /\ sudo_expiry = None /\ sudo_shown = FALSE
         /\ is_programmatic = FALSE

\* new ran in a session that had stored a credential and written both files
C26_Witness ==
    /\ pc = "idle" /\ ev = Ev("new", "ok", None)
    /\ ticks = 1 /\ IsSome(files["p2"]) /\ files["p1"] = Some(<<"a", "b">>)

(***************************************************************************)
(* Properties of searching and replacing                                   *)
(***************************************************************************)
\* C27: right after new, and right after a successful load, the stored search pattern is
\* empty and the stored match-case flag is false (so Find Next would do nothing).
C27_SearchStateResetOnNewAndOpen ==
    (pc = "idle" /\ ~panicked /\ ev.op \in {"new", "load"} /\ ev.res = "ok")
        => (find_text = Empty /\ match_case = FALSE)

\* a replace that found a match and replaced it
ReplaceStep == HandlerStep /\ ev'.op = "replace" /\ ev'.res = "replaced"

\* C28: a replace on a found match adds exactly one entry to the undo stack, and that
\* entry is the text before the replace, so one undo restores it and never the
\* intermediate text with the match deleted.
C28_ReplaceIsOneUndoEntry ==
    [][ReplaceStep => (/\ Len(undo_stack') = Len(undo_stack) + 1
                       /\ Top(undo_stack') = buffer)]_vars

\* a find or replace handler ran with an empty pattern
EmptySearchStep ==
    /\ HandlerStep
    /\ \/ ev'.op \in {"find", "replace"} /\ find_text' = Empty
       \/ ev'.op \in {"find_next", "find_prev"} /\ find_text = Empty

\* C29: a search with an empty pattern finds nothing, whatever the buffer, the cursor,
\* the direction and the match-case flag, and leaves the selection, the text and the
\* document state as they were.
C29_EmptyPatternFindsNothing ==
    /\ [](\A c \in 0..Len(buffer), forward \in BOOLEAN, cs \in BOOLEAN :
            search_in_buffer(buffer, c, Empty, forward, cs).span = None)
    /\ [][EmptySearchStep => (/\ ev'.res \in {"none", "empty"}
                              /\ UNCHANGED <<buffer, marks, doc_vars, env_vars,
                                             sudo_shown, saved>>
                              /\ ev'.op \in {"find_next", "find_prev"}
                                     => UNCHANGED <<find_text, match_case>>)]_vars

\* an empty pattern was looked for while a match was selected: the selection stayed
C29_Witness ==
    /\ Idle
    /\ ev.op = "find"
    /\ ev.res = "none"
    /\ find_text = Empty
    /\ buffer # Empty
    /\ marks.insert # marks.bound

\* the pattern occurs somewhere in the text under the case rule
Occurs(text, pattern, case_sensitive) ==
    \E i \in 0..Len(text) :
        /\ i + Len(pattern) <= Len(text)
        /\ \A k \in 1..Len(pattern) :
              IF case_sensitive THEN text[i + k] = pattern[k]
                                ELSE Lower(text[i + k]) = Lower(pattern[k])

\* a find or replace handler ran with a non-empty pattern
SearchStep ==
    /\ HandlerStep
    /\ ev'.op \in {"find", "replace", "find_next", "find_prev"}
    /\ find_text' # Empty

\* C30: a search for a non-empty pattern, from any cursor position and in either
\* direction, finds a match exactly when the pattern occurs somewhere in the buffer
\* (letters compared without case unless match-case is set); the span it returns is an
\* occurrence; and it makes one scan or two.
C30_SearchFindsIffPresentInTwoScans ==
    /\ [](\A pattern \in Patterns \ {Empty}, c \in 0..Len(buffer),
             forward \in BOOLEAN, cs \in BOOLEAN :
            LET r == search_in_buffer(buffer, c, pattern, forward, cs)
            IN  /\ IsSome(r.span) <=> Occurs(buffer, pattern, cs)
                /\ r.scans \in {1, 2}
                /\ IsSome(r.span) =>
                      /\ Unwrap(r.span)[2] = Unwrap(r.span)[1] + Len(pattern)
                      /\ Unwrap(r.span)[2] <= Len(buffer)
                      /\ Occurs(SubSeq(buffer, Unwrap(r.span)[1] + 1, Unwrap(r.span)[2]),
                                pattern, cs))
    /\ [][SearchStep => (/\ ev'.res \in {"found", "replaced"}
                             <=> Occurs(buffer, find_text', match_case')
                         /\ ev'.arg \in {Some(1), Some(2)})]_vars

\* a search that found nothing after the cursor wrapped, and found the other spelling
C30_Witness ==
    /\ Idle
    /\ ev.op \in {"find", "find_next", "find_prev"}
    /\ ev.res = "found"
    /\ ev.arg = Some(2)
    /\ ~match_case
    /\ find_text = <<"A">>
    /\ SubSeq(buffer, marks.insert + 1, marks.bound) = <<"a">>

\* the offsets at which the pattern lies in the text
Occurrences(text, pattern, case_sensitive) ==
    {i \in 0..Len(text) : MatchesAt(text, pattern, i, case_sensitive)}

\* a forward find handler found a match
ForwardFoundStep ==
    /\ HandlerStep
    /\ ev'.op \in {"find", "find_next"}
    /\ ev'.res = "found"

\* C31: when the pattern occurs exactly once, a forward search from any position past
\* the occurrence wraps (second scan) and returns it, and a further forward search,
\* from where the match left the cursor, returns the same span again.
C31_SingleOccurrenceIsFoundAgain ==
    /\ [](\A pattern \in Patterns \ {Empty}, cs \in BOOLEAN :
            LET occ == Occurrences(buffer, pattern, cs)
            IN  Cardinality(occ) = 1 =>
                  LET i == Min(occ)
                      hit == Some(<<i, i + Len(pattern)>>)
                  IN  /\ \A c \in (i + 1)..Len(buffer) :
                            search_in_buffer(buffer, c, pattern, TRUE, cs)
                                = [span |-> hit, scans |-> 2]
                      /\ search_in_buffer(buffer, i, pattern, TRUE, cs).span = hit)
    /\ [][(ForwardFoundStep /\ Cardinality(Occurrences(buffer, find_text', match_case')) = 1)
            => LET i == Min(Occurrences(buffer, find_text', match_case'))
               IN  marks' = [insert |-> i, bound |-> i + Len(find_text')]]_vars

\* Find Next wrapped to the only occurrence, which does not start at offset 0
C31_Witness ==
    /\ Idle
    /\ ev.op = "find_next"
    /\ ev.res = "found"
    /\ ev.arg = Some(2)
    /\ Cardinality(Occurrences(buffer, find_text, match_case)) = 1
    /\ marks.insert > 0

(***************************************************************************)
(* Properties of the whole session                                         *)
(***************************************************************************)
\* the close prompt's Save answer ran a save, or its Save As dialog was answered
CloseSaveStep ==
    /\ pc \in {"close_prompt", "close_save_as"}
    /\ ev'.op \in {"close_save", "close_save_as"}

\* C32: after Save is chosen in the close prompt, a successful save leaves dirty false,
\* the text in the destination, and the window closing, and the retried close request
\* closes it without a prompt; a failed save or a cancelled Save As dialog leaves the
\* window open and dirty true.
C32_CloseSaveClosesOnlyOnSuccess ==
    /\ [][CloseSaveStep =>
            IF ev'.res = "ok"
            THEN /\ dirty' = FALSE
                 /\ pc' = "close_retry"
                 /\ files'[Unwrap(ev'.arg)] = Some(buffer)
            ELSE /\ pc' = "idle"
                 /\ dirty /\ dirty'
                 /\ UNCHANGED <<buffer, path>>]_vars
    /\ [][(pc = "close_retry" /\ ev.op \in {"close_save", "close_save_as"})
            => (pc' = "closed" /\ ev'.res = "closed")]_vars

\* the window closed after the prompt's Save wrote the text to a chosen destination
C32_Witness ==
    /\ pc = "closed"
    /\ ev.arg = Some("close_retry")
    /\ ~dirty
    /\ buffer # Empty
    /\ path = None
    /\ \E p \in Paths : files[p] = Some(buffer)
    /\ saved = buffer

\* C33: whenever no handler is running, last_text is the full text of the buffer.
C33_LastTextIsBufferWhenIdle == Idle => last_text = buffer

\* after a replace that left two snapshots, and an undo of its second half
C33_Witness ==
    /\ Idle
    /\ ev.op = "undo"
    /\ ev.res = "ok"
    /\ redo_stack # <<>>
    /\ undo_stack # <<>>
    /\ buffer \notin Texts
    /\ last_text = buffer

\* the history read in order: the undo stack from the bottom, last_text, the redo
\* stack from the top
HistoryLine ==
    undo_stack \o <<last_text>> \o [i \in 1..Len(redo_stack) |->
                                        redo_stack[Len(redo_stack) + 1 - i]]

\* C36: whenever no handler is running, every two adjacent texts of the history line
\* differ, so the top of either stack never equals last_text and every successful undo
\* or redo changes the buffer text.
C36_AdjacentHistoryTextsDiffer ==
    /\ [](Idle => \A i \in 1..(Len(HistoryLine) - 1) : HistoryLine[i] # HistoryLine[i + 1])
    /\ [][(Idle /\ pc' \in {"undo", "redo"}) => buffer' # buffer]_vars

\* a history line of three texts with both stacks in use
C36_Witness ==
    /\ Idle
    /\ undo_stack # <<>>
    /\ redo_stack # <<>>
    /\ Top(undo_stack) # last_text
    /\ Top(redo_stack) # last_text
    /\ Top(undo_stack) = Top(redo_stack)

\* C34: no handler asks for a mutable borrow of a DocumentState field while another
\* borrow of that field is live, so no handler ever panics.
C34_NoBorrowPanic == ~panicked

\* C35: whenever no handler is running, a secret is stored exactly when an expiry is
\* stored, and exactly when the SUDO label and the sudo_mode action state show active.
C35_SecretExpiryIndicatorAgree ==
    Idle => /\ IsSome(sudo_password) <=> IsSome(sudo_expiry)
            /\ IsSome(sudo_password) <=> sudo_shown

\* a save whose re-authentication was refused: the expired credential and the
\* indicator both stay
C35_Witness ==
    /\ Idle
    /\ ev.op = "save"
    /\ ev.prompt = "rejected"
    /\ IsSome(sudo_password)
    /\ IsSome(sudo_expiry)
    /\ sudo_shown

\* Find Next or Find Previous issued right after a match, with the cursor and the
\* selection where that match left them
FindAgainAfterMatchStep ==
    /\ HandlerStep
    /\ ev.op \in {"find", "find_next", "find_prev"}
    /\ ev.res = "found"
    /\ ev'.op \in {"find_next", "find_prev"}

\* C37: when the pattern occurs twice or more, Find Next and Find Previous issued right
\* after a match select another occurrence, not the same span again.
C37_FindAgainMakesProgress ==
    [][(FindAgainAfterMatchStep /\ Cardinality(Occurrences(buffer, find_text, match_case)) >= 2)
        => (ev'.res = "found" /\ marks' # marks)]_vars

\* a close request, not one retried by the prompt, that lets the window close
CloseWithoutPromptStep == pc = "idle" /\ ~panicked /\ pc' = "closed"

\* C38: whenever a close request closes the window without showing the prompt, the
\* buffer text is the text of the last successful save or load, or empty after new.
C38_SilentCloseLosesNothing == [][CloseWithoutPromptStep => buffer = saved]_vars

\* C39: elevated saves of two processes running at the same time do not interfere: none
\* fails, and each one that reports success has left its own text in its destination.
C39_ConcurrentSudoSavesDoNotInterfere ==
    \A i \in Procs :
        /\ procs[i].res # "err"
        /\ procs[i].res = "ok" => files[Dest(i)] = Some(procs[i].text)

\* the Find dialog, Find Next or Find Previous ran
FindStep ==
    /\ HandlerStep
    /\ ev'.op \in {"find", "find_next", "find_prev"}

\* C40: Find, Find Next and Find Previous leave the buffer text, last_text, dirty, the
\* path, the mode, the credential and both history stacks as they were; Find Next and
\* Find Previous also leave the stored pattern and match-case flag as they were.
C40_FindChangesOnlySelection ==
    [][FindStep => (/\ UNCHANGED <<buffer, last_text, dirty, path, mode, sudo_password,
                                   sudo_expiry, undo_stack, redo_stack, is_programmatic>>
                    /\ ev'.op \in {"find_next", "find_prev"}
                          => UNCHANGED <<find_text, match_case>>)]_vars

\* Find Previous selected a match, case-sensitively, in an edited document with history
C40_Witness ==
    /\ Idle
    /\ ev.op = "find_prev"
    /\ ev.res = "found"
    /\ match_case
    /\ dirty
    /\ undo_stack # <<>>
    /\ marks.insert # marks.bound

====
